---------------------------- MODULE Spec2Model ----------------------------
(***************************************************************************)
(* HTMLInstrumentation (src/src/language/HTMLInstrumentation.js).          *)
(*                                                                         *)
(* Strings are sequences of one-character strings, offsets are 0-based as  *)
(* in JavaScript, and a JavaScript array is a TLA+ sequence (array index i *)
(* is sequence index i + 1).                                               *)
(***************************************************************************)
EXTENDS Integers, Sequences, FiniteSets, TLC

(***************************************************************************)
(* Bounds of the model.                                                    *)
(***************************************************************************)
\* longest token sequence of an enumerated document
MaxTokens == 3
\* disk timestamps range over 1 .. MaxStamp
MaxStamp == 2

(***************************************************************************)
(* JavaScript string primitives.                                           *)
(***************************************************************************)
Lowers == <<"a","b","c","d","e","f","g","h","i","j","k","l","m",
            "n","o","p","q","r","s","t","u","v","w","x","y","z">>
Uppers == <<"A","B","C","D","E","F","G","H","I","J","K","L","M",
            "N","O","P","Q","R","S","T","U","V","W","X","Y","Z">>

UpperChar(c) ==
    IF \E i \in 1..26 : Lowers[i] = c
    THEN Uppers[CHOOSE i \in 1..26 : Lowers[i] = c]
    ELSE c

LowerChar(c) ==
    IF \E i \in 1..26 : Uppers[i] = c
    THEN Lowers[CHOOSE i \in 1..26 : Uppers[i] = c]
    ELSE c

ToUpperCase(s) == [i \in 1..Len(s) |-> UpperChar(s[i])]
ToLowerCase(s) == [i \in 1..Len(s) |-> LowerChar(s[i])]

\* String.prototype.substr(from, length) with 0-based from, clamped to the string
Substr(s, from, length) ==
    LET f == IF from > Len(s) THEN Len(s) ELSE from
        l == IF f + length > Len(s) THEN Len(s) - f ELSE length
    IN  SubSeq(s, f + 1, f + l)

\* String.prototype.substr(from): the rest of the string
SubstrFrom(s, from) == Substr(s, from, Len(s))

\* whether pat occurs in s as a contiguous substring
Contains(s, pat) ==
    \E i \in 1..(Len(s) - Len(pat) + 1) : SubSeq(s, i, i + Len(pat) - 1) = pat

Digits == <<"0","1","2","3","4","5","6","7","8","9">>

\* Number to decimal string, as string concatenation does it ("" + n), n >= 0
RECURSIVE NumberToString(_)
NumberToString(n) ==
    IF n < 10 THEN <<Digits[n + 1]>>
    ELSE NumberToString(n \div 10) \o <<Digits[(n % 10) + 1]>>


(***************************************************************************)
(* Documents under enumeration.  A document text is the concatenation of   *)
(* rendered tokens: an opening tag <name>, a closing tag </name>, a closed *)
(* tag <name />, or a run of text.                                         *)
(***************************************************************************)
Open(name) == [kind |-> "open", chars |-> name]
Close(name) == [kind |-> "close", chars |-> name]
Closed(name) == [kind |-> "closed", chars |-> name]
Text(chars) == [kind |-> "text", chars |-> chars]

Render(tok) ==
    CASE tok.kind = "open" -> <<"<">> \o tok.chars \o <<">">>
      [] tok.kind = "close" -> <<"<", "/">> \o tok.chars \o <<">">>
      [] tok.kind = "closed" -> <<"<">> \o tok.chars \o <<" ", "/", ">">>
      [] OTHER -> tok.chars

RECURSIVE RenderAll(_)
RenderAll(toks) ==
    IF toks = <<>> THEN <<>> ELSE Render(Head(toks)) \o RenderAll(Tail(toks))

tagDiv == <<"d","i","v">>
tagP == <<"p">>
tagSpan == <<"s","p","a","n">>
tagImg == <<"i","m","g">>
tagBody == <<"b","o","d","y">>
tagAbbr == <<"a","b","b","r">>

Tokens ==
    {Open(tagDiv), Open(tagP), Open(tagImg), Open(tagBody), Open(tagAbbr),
     Close(tagDiv), Close(tagP), Close(tagImg),
     Closed(tagDiv), Text(<<"x">>)}

\* the documents of the specification's examples
NestedDoc == RenderAll(<<Open(tagDiv), Open(tagSpan), Text(<<"x">>), Close(tagSpan), Close(tagDiv)>>)
UnmatchedCloseDoc == RenderAll(<<Open(tagDiv), Close(tagSpan), Close(tagDiv)>>)
UnclosedDoc == RenderAll(<<Open(tagDiv), Open(tagP), Text(<<"t","e","x","t">>)>>)

\* an abbreviation around a paragraph
AbbrDoc == RenderAll(<<Open(tagAbbr), Open(tagP), Text(<<"x">>), Close(tagP), Close(tagAbbr)>>)

\* an unclosed tag around an empty tag and a matched one
MixedDoc == RenderAll(<<Open(tagDiv), Open(tagImg), Open(tagP), Close(tagP)>>)

ScanDocs ==
    {RenderAll(toks) : toks \in UNION {[1..n -> Tokens] : n \in 0..MaxTokens}}
        \cup {NestedDoc, UnmatchedCloseDoc, UnclosedDoc, AbbrDoc, MixedDoc}

(***************************************************************************)
(* DOMHelpers.eachNode: the tokenizer.  It yields, in document order, one  *)
(* payload per tag occurrence and per run of text, with the tag name in    *)
(* upper case, the closing flag for </name>, the closed flag for <name />, *)
(* and the source offset and length of the occurrence.                     *)
(***************************************************************************)
\* length of the longest prefix of s, from 0-based index i, holding none of stops
RECURSIVE RunLength(_, _, _)
RunLength(s, i, stops) ==
    IF i >= Len(s) \/ s[i + 1] \in stops THEN 0
    ELSE 1 + RunLength(s, i + 1, stops)

extractPayload(content, sourceOffset) ==
    IF content[1] # "<"
    THEN [nodeType |-> 3, nodeName |-> <<>>, closing |-> FALSE, closed |-> FALSE,
          sourceOffset |-> sourceOffset, sourceLength |-> Len(content)]
    ELSE LET closing == Len(content) >= 2 /\ content[2] = "/"
             from == IF closing THEN 2 ELSE 1
             name == Substr(content, from, RunLength(content, from, {">", " ", "/"}))
         IN  [nodeType |-> 1,
              nodeName |-> ToUpperCase(name),
              closing |-> closing,
              closed |-> Len(content) >= 2 /\ content[Len(content) - 1] = "/",
              sourceOffset |-> sourceOffset,
              sourceLength |-> Len(content)]

RECURSIVE eachNodeFrom(_, _)
eachNodeFrom(src, index) ==
    IF index >= Len(src) THEN <<>>
    ELSE LET length ==
                 IF src[index + 1] = "<"
                 THEN LET n == RunLength(src, index, {">"})
                      IN  IF index + n < Len(src) THEN n + 1 ELSE n
                 ELSE RunLength(src, index, {"<"})
         IN  <<extractPayload(Substr(src, index, length), index)>>
                 \o eachNodeFrom(src, index + length)

eachNode(src) == eachNodeFrom(src, 0)

(***************************************************************************)
(* _isEmptyTag (lines 58-69).  The regular expression is unanchored and    *)
(* case-insensitive: it matches when any alternative occurs anywhere in    *)
(* the node name.                                                          *)
(***************************************************************************)
EmptyTagPattern ==
    { <<"!","d","o","c","t","y","p","e">>, <<"a","r","e","a">>, <<"b","a","s","e">>,
      <<"b","a","s","e","f","o","n","t">>, <<"b","r">>, <<"w","b","r">>,
      <<"c","o","l">>, <<"f","r","a","m","e">>, <<"h","r">>, <<"i","m","g">>,
      <<"i","n","p","u","t">>, <<"i","s","i","n","d","e","x">>, <<"l","i","n","k">>,
      <<"m","e","t","a">>, <<"p","a","r","a","m">>, <<"e","m","b","e","d">> }

RegexTest(nodeName) ==
    \E alt \in EmptyTagPattern : Contains(ToLowerCase(nodeName), alt)

_isEmptyTag(payload) ==
    IF payload.closed \/ payload.nodeName = <<>> THEN TRUE
    ELSE IF RegexTest(payload.nodeName) THEN TRUE
    ELSE FALSE


(***************************************************************************)
(* scanDocument (lines 76-180).  The local state of one scan is the record *)
(* [tagStack, tags, tagID, errors]; errors counts the console.error calls. *)
(* An entry of tagStack is the pushed payload; its unclosedLength is 0     *)
(* until it is set (line 103 tests it for falsiness).                      *)
(***************************************************************************)
HTML == <<"H","T","M","L">>
BODY == <<"B","O","D","Y">>

ScanStart == [tagStack |-> <<>>, tags |-> <<>>, tagID |-> 1, errors |-> 0]

\* a back-patch that subtracts the wrong way round
SetUnclosedLengthReversed(tagStack, payload, textLength) ==
    IF Len(tagStack) > 0
    THEN LET tag == tagStack[Len(tagStack)]
         IN  IF tag.unclosedLength = 0
             THEN IF tag.nodeName = HTML \/ tag.nodeName = BODY
                  THEN [tagStack EXCEPT ![Len(tagStack)].unclosedLength =
                                            tag.sourceOffset - textLength]
                  ELSE [tagStack EXCEPT ![Len(tagStack)].unclosedLength =
                                            tag.sourceOffset - payload.sourceOffset]
             ELSE tagStack
    ELSE tagStack

\* lines 100-110: set unclosedLength for the last tag of the stack
SetUnclosedLength(tagStack, payload, textLength) ==
    IF Len(tagStack) > 0
    THEN LET tag == tagStack[Len(tagStack)]
         IN  IF tag.unclosedLength = 0
             THEN IF tag.nodeName = HTML \/ tag.nodeName = BODY
                  THEN [tagStack EXCEPT ![Len(tagStack)].unclosedLength =
                                            textLength - tag.sourceOffset]
                  ELSE [tagStack EXCEPT ![Len(tagStack)].unclosedLength =
                                            payload.sourceOffset - tag.sourceOffset]
             ELSE tagStack
    ELSE tagStack

\* a search that takes the top of the stack when no entry is named nodeName
FindStartTagOrTop(tagStack, nodeName) ==
    LET found == {i \in 1..Len(tagStack) : tagStack[i].nodeName = nodeName}
    IN  IF found = {} THEN Len(tagStack) ELSE CHOOSE i \in found : \A j \in found : j <= i

\* a search from the bottom of the stack: the first entry named nodeName
FindStartTagFirst(tagStack, nodeName) ==
    LET found == {i \in 1..Len(tagStack) : tagStack[i].nodeName = nodeName}
    IN  IF found = {} THEN 0 ELSE CHOOSE i \in found : \A j \in found : i <= j

\* lines 125-131: index of the last entry named nodeName, 0 when there is none
FindStartTag(tagStack, nodeName) ==
    LET found == {i \in 1..Len(tagStack) : tagStack[i].nodeName = nodeName}
    IN  IF found = {} THEN 0 ELSE CHOOSE i \in found : \A j \in found : j <= i

\* Array.prototype.splice(i, 1) with i given as a sequence index
Splice(seq, i) == SubSeq(seq, 1, i - 1) \o SubSeq(seq, i + 1, Len(seq))

\* a callback without the test of line 95
IgnoredClosingNever(payload) == FALSE

\* lines 94-97: the closing tag of an empty tag is ignored
IgnoredClosing(payload) == payload.closing /\ _isEmptyTag(payload)

\* lines 93-148: the callback handed to DOMHelpers.eachNode
Callback(s, payload, textLength) ==
    IF IgnoredClosing(payload) THEN s
    ELSE IF payload.nodeType = 1 /\ payload.nodeName # <<>>
    THEN LET stack == SetUnclosedLength(s.tagStack, payload, textLength)
         IN  IF _isEmptyTag(payload)
             THEN [s EXCEPT !.tagStack = stack,
                            !.tags = Append(s.tags,
                                [name |-> payload.nodeName,
                                 data |-> s.tagID,
                                 start |-> payload.sourceOffset,
                                 end |-> payload.sourceOffset + payload.sourceLength]),
                            !.tagID = s.tagID + 1]
             ELSE IF payload.closing
             THEN LET i == FindStartTag(stack, payload.nodeName)
                  IN  IF i > 0
                      THEN [s EXCEPT !.tagStack = Splice(stack, i),
                                     !.tags = Append(s.tags,
                                         [name |-> stack[i].nodeName,
                                          data |-> s.tagID,
                                          start |-> stack[i].sourceOffset,
                                          end |-> payload.sourceOffset
                                                      + payload.sourceLength]),
                                     !.tagID = s.tagID + 1]
                      ELSE [s EXCEPT !.tagStack = stack, !.errors = s.errors + 1]
             ELSE [s EXCEPT !.tagStack = Append(stack,
                                [nodeName |-> payload.nodeName,
                                 sourceOffset |-> payload.sourceOffset,
                                 sourceLength |-> payload.sourceLength,
                                 unclosedLength |-> 0])]
    ELSE s

\* a loop that gives every unclosed tag the same tagID (tagID without ++)
PopUnclosedSameID(s) ==
    LET tag == s.tagStack[Len(s.tagStack)]
    IN  [s EXCEPT !.tagStack = SubSeq(s.tagStack, 1, Len(s.tagStack) - 1),
                  !.tags = Append(s.tags,
                      [name |-> tag.nodeName,
                       data |-> s.tagID,
                       start |-> tag.sourceOffset,
                       end |-> tag.sourceOffset
                                + (IF tag.unclosedLength # 0 THEN tag.unclosedLength
                                   ELSE tag.sourceLength)])]

\* a loop that takes the unclosed tags from the bottom of the stack (shift)
PopUnclosedShift(s) ==
    LET tag == s.tagStack[1]
    IN  [s EXCEPT !.tagStack = Tail(s.tagStack),
                  !.tags = Append(s.tags,
                      [name |-> tag.nodeName,
                       data |-> s.tagID,
                       start |-> tag.sourceOffset,
                       end |-> tag.sourceOffset
                                + (IF tag.unclosedLength # 0 THEN tag.unclosedLength
                                   ELSE tag.sourceLength)]),
                  !.tagID = s.tagID + 1]

\* a loop that pops the unclosed tags without pushing a span for them
PopUnclosedDropped(s) ==
    [s EXCEPT !.tagStack = SubSeq(s.tagStack, 1, Len(s.tagStack) - 1)]

\* lines 151-160: one turn of the loop over the unclosed tags
PopUnclosed(s) ==
    LET tag == s.tagStack[Len(s.tagStack)]
    IN  [s EXCEPT !.tagStack = SubSeq(s.tagStack, 1, Len(s.tagStack) - 1),
                  !.tags = Append(s.tags,
                      [name |-> tag.nodeName,
                       data |-> s.tagID,
                       start |-> tag.sourceOffset,
                       end |-> tag.sourceOffset
                                + (IF tag.unclosedLength # 0 THEN tag.unclosedLength
                                   ELSE tag.sourceLength)]),
                  !.tagID = s.tagID + 1]

\* lines 162-171: Array.prototype.sort with the comparator on start.  The order
\* of elements the comparator calls equal is the engine's choice, so the
\* outcomes are all the orders ascending by start.
RECURSIVE SortOutcomesOf(_, _)
SortOutcomesOf(tags, left) ==
    IF left = {} THEN {<<>>}
    ELSE LET least == {i \in left : \A j \in left : tags[i].start <= tags[j].start}
         IN  UNION {{<<tags[i]>> \o rest : rest \in SortOutcomesOf(tags, left \ {i})}
                        : i \in least}

\* a scan that returns the spans in the order of their discovery
SortOutcomesUnsorted(tags) == {tags}

SortOutcomes(tags) == SortOutcomesOf(tags, 1..Len(tags))

RECURSIVE EachCallback(_, _, _, _)
EachCallback(s, nodes, from, textLength) ==
    IF from > Len(nodes) THEN s
    ELSE EachCallback(Callback(s, nodes[from], textLength), nodes, from + 1, textLength)

RECURSIVE PopAllUnclosed(_)
PopAllUnclosed(s) == IF Len(s.tagStack) = 0 THEN s ELSE PopAllUnclosed(PopUnclosed(s))

\* lines 85-160: the tags of a text before they are sorted
ScanText(text) == PopAllUnclosed(EachCallback(ScanStart, eachNode(text), 1, Len(text)))


(***************************************************************************)
(* generateInstrumentedHTML (lines 190-207).                               *)
(***************************************************************************)
AttrPrefix ==
    <<" ","d","a","t","a","-","b","r","a","c","k","e","t","s","-","i","d","=","'">>

\* line 198
AttrText(tag) == AttrPrefix \o NumberToString(tag.data) \o <<"'">>

\* an insertion point that leaves out the attributes inserted so far
InsertIndexNoCount(tag, insertCount) == tag.start + Len(tag.name) + 1

\* line 201
InsertIndex(tag, insertCount) == tag.start + Len(tag.name) + 1 + insertCount

\* an insertion that writes over the character at the insertion point
InsertAtOverwrite(gen, insertIndex, attrText) ==
    Substr(gen, 0, insertIndex) \o attrText \o SubstrFrom(gen, insertIndex + 1)

\* line 202
InsertAt(gen, insertIndex, attrText) ==
    Substr(gen, 0, insertIndex) \o attrText \o SubstrFrom(gen, insertIndex)

\* lines 197-204: the forEach over the tags, from the tag of sequence index i
RECURSIVE InsertAttributes(_, _, _, _)
InsertAttributes(gen, tags, i, insertCount) ==
    IF i > Len(tags) THEN gen
    ELSE LET attrText == AttrText(tags[i])
             insertIndex == InsertIndex(tags[i], insertCount)
         IN  InsertAttributes(InsertAt(gen, insertIndex, attrText),
                              tags, i + 1, insertCount + Len(attrText))

(***************************************************************************)
(* State.                                                                  *)
(***************************************************************************)
Keys == {"a.html", "b.html"}

TextOnlyDoc == RenderAll(<<Text(<<"x">>)>>)

\* the texts a document takes under Spec
EditDocs == {TextOnlyDoc, UnclosedDoc}

VARIABLES
    docs,           \* the documents: full path -> [text, diskTimestamp]
    _cachedValues,  \* line 51: full path -> [timestamp, tags], for the scanned paths
    call,           \* the last call of the exported interface: [op, key, cached],
                    \* cached the timestamp cached for key when it was made (0: none)
    ret,            \* what that call returned: [kind, tags, str]
    tokenized,      \* whether that call invoked DOMHelpers.eachNode
    errors,         \* the console.error calls of that call
    pc,             \* scanDocument in steps: "idle", "each" (line 93), "drain" (line 151)
    doc,            \* scanDocument in steps: the full path of its argument
    nodes,          \* the payloads DOMHelpers.eachNode hands to the callback
    pos,            \* how many of them the callback has handled
    tagStack,       \* line 90
    tags,           \* line 89
    tagID,          \* line 86
    marks,          \* MarkedTextTracker: full path of the editor's document -> the
                    \* ranges marked in the editor under "htmlTagID"
    tracker         \* the call that call made on MarkedTextTracker

vars == <<docs, _cachedValues, call, ret, tokenized, errors,
          pc, doc, nodes, pos, tagStack, tags, tagID, marks, tracker>>

scanVars == <<pc, doc, nodes, pos, tagStack, tags, tagID>>

Undefined == [kind |-> "undefined", tags |-> <<>>, str |-> <<>>, num |-> 0]
Array(a) == [kind |-> "array", tags |-> a, str |-> <<>>, num |-> 0]
String(str) == [kind |-> "string", tags |-> <<>>, str |-> str, num |-> 0]
Null == [kind |-> "null", tags |-> <<>>, str |-> <<>>, num |-> 0]
Number(n) == [kind |-> "number", tags |-> <<>>, str |-> <<>>, num |-> n]

\* no call on MarkedTextTracker
NoTrackerCall ==
    [fn |-> "none", editor |-> "none", type |-> "none", ranges |-> <<>>, pos |-> 0]

InitCommon ==
    /\ _cachedValues = <<>>
    /\ call = [op |-> "none", key |-> "none", cached |-> 0]
    /\ ret = Undefined
    /\ tokenized = FALSE
    /\ errors = 0
    /\ pc = "idle"
    /\ doc = "none"
    /\ nodes = <<>>
    /\ pos = 0
    /\ tagStack = <<>>
    /\ tags = <<>>
    /\ tagID = 1
    /\ marks = <<>>
    /\ tracker = NoTrackerCall

Init ==
    /\ docs \in [Keys -> [text : EditDocs, diskTimestamp : {1}]]
    /\ InitCommon

\* a cache that compares the timestamps with !==
CacheHitInverted(k) ==
    /\ k \in DOMAIN _cachedValues
    /\ _cachedValues[k].timestamp # docs[k].diskTimestamp

\* a cache that keeps a value no older than the document
CacheHitNotOlder(k) ==
    /\ k \in DOMAIN _cachedValues
    /\ _cachedValues[k].timestamp >= docs[k].diskTimestamp

\* lines 77-83: a value is cached for the path and carries the document's timestamp
CacheHit(k) ==
    /\ k \in DOMAIN _cachedValues
    /\ _cachedValues[k].timestamp = docs[k].diskTimestamp

\* the timestamp cached for the path, 0 when nothing is cached for it
CachedStamp(k) == IF k \in DOMAIN _cachedValues THEN _cachedValues[k].timestamp ELSE 0

\* lines 174-177
CacheStore(k, sorted) ==
    [j \in (DOMAIN _cachedValues) \cup {k} |->
        IF j = k THEN [timestamp |-> docs[k].diskTimestamp, tags |-> sorted]
        ELSE _cachedValues[j]]


\* lines 76-180 as one step: what scanDocument may return for the document k
ScanResults(k) ==
    IF CacheHit(k) THEN {_cachedValues[k].tags}
    ELSE SortOutcomes(ScanText(docs[k].text).tags)

\* lines 76-180 as one step: the effects of scanDocument returning result
ScanEffects(k, result) ==
    IF CacheHit(k)
    THEN /\ tokenized' = FALSE
         /\ errors' = 0
         /\ UNCHANGED _cachedValues
    ELSE /\ tokenized' = TRUE
         /\ errors' = ScanText(docs[k].text).errors
         /\ _cachedValues' = CacheStore(k, result)

(***************************************************************************)
(* The exported interface, each call one step.                             *)
(***************************************************************************)
ScanDocument(k) ==
    /\ pc = "idle"
    /\ \E result \in ScanResults(k) :
        /\ ScanEffects(k, result)
        /\ ret' = Array(result)
    /\ call' = [op |-> "scanDocument", key |-> k, cached |-> CachedStamp(k)]
    /\ tracker' = NoTrackerCall
    /\ UNCHANGED <<docs, scanVars, marks>>

\* a loop that takes the tags off the array scanDocument returned (shift()
\* on the array itself, without slice())
TagsAfterInsertShifted(cached) == <<>>

\* lines 191, 196-205: the loop reads a copy, slice(), of the array that
\* scanDocument returned; the array of the snapshot is left as it was
TagsAfterInsert(cached) == cached

\* lines 76-180: the snapshots after scanDocument has returned result
CacheAfterScan(k, result) ==
    IF CacheHit(k) THEN _cachedValues ELSE CacheStore(k, result)

GenerateInstrumentedHTML(k) ==
    /\ pc = "idle"
    /\ \E result \in ScanResults(k) :
        /\ tokenized' = ~CacheHit(k)
        /\ errors' = IF CacheHit(k) THEN 0 ELSE ScanText(docs[k].text).errors
        /\ _cachedValues' = [CacheAfterScan(k, result) EXCEPT
                                 ![k].tags = TagsAfterInsert(@)]
        /\ ret' = String(InsertAttributes(docs[k].text, result, 1, 0))
    /\ call' = [op |-> "generateInstrumentedHTML", key |-> k, cached |-> CachedStamp(k)]
    /\ tracker' = NoTrackerCall
    /\ UNCHANGED <<docs, scanVars, marks>>

(***************************************************************************)
(* The document accessor: the text changes when the document is edited,    *)
(* the disk timestamp when it is saved or reloaded.                        *)
(***************************************************************************)
SetText(k, text) ==
    /\ pc = "idle"
    /\ docs[k].text # text
    /\ docs' = [docs EXCEPT ![k].text = text]
    /\ UNCHANGED <<_cachedValues, call, ret, tokenized, errors, scanVars, marks, tracker>>

SetTimestamp(k, stamp) ==
    /\ pc = "idle"
    /\ docs[k].diskTimestamp # stamp
    /\ docs' = [docs EXCEPT ![k].diskTimestamp = stamp]
    /\ UNCHANGED <<_cachedValues, call, ret, tokenized, errors, scanVars, marks, tracker>>

Next ==
    \/ \E k \in Keys : ScanDocument(k)
    \/ \E k \in Keys : GenerateInstrumentedHTML(k)
    \/ \E k \in Keys, text \in EditDocs : SetText(k, text)
    \/ \E k \in Keys, stamp \in 1..MaxStamp : SetTimestamp(k, stamp)

Spec == Init /\ [][Next]_vars

(***************************************************************************)
(* scanDocument in steps, on a document that has not been scanned: the     *)
(* callback runs once per payload, then the loop over the unclosed tags,   *)
(* then the sort, the cache store and the return.                          *)
(***************************************************************************)
FirstKey == "a.html"

InitScan ==
    /\ \E text \in ScanDocs :
        docs = [k \in Keys |-> [text |-> IF k = FirstKey THEN text ELSE <<>>,
                                diskTimestamp |-> 1]]
    /\ InitCommon

\* lines 76-92: the cache misses, the scan starts
ScanBegin(k) ==
    /\ pc = "idle"
    /\ ~CacheHit(k)
    /\ doc' = k
    /\ nodes' = eachNode(docs[k].text)
    /\ pos' = 0
    /\ tagStack' = ScanStart.tagStack
    /\ tags' = ScanStart.tags
    /\ tagID' = ScanStart.tagID
    /\ errors' = ScanStart.errors
    /\ tokenized' = TRUE
    /\ pc' = "each"
    /\ call' = [op |-> "scanDocument", key |-> k, cached |-> CachedStamp(k)]
    /\ ret' = Undefined
    /\ tracker' = NoTrackerCall
    /\ UNCHANGED <<docs, _cachedValues, marks>>

\* lines 93-148: the callback handles the next payload
ScanEachNode ==
    /\ pc = "each"
    /\ pos < Len(nodes)
    /\ LET s == Callback([tagStack |-> tagStack, tags |-> tags,
                          tagID |-> tagID, errors |-> errors],
                         nodes[pos + 1], Len(docs[doc].text))
       IN  /\ tagStack' = s.tagStack
           /\ tags' = s.tags
           /\ tagID' = s.tagID
           /\ errors' = s.errors
    /\ pos' = pos + 1
    /\ UNCHANGED <<docs, _cachedValues, call, ret, tokenized, pc, doc, nodes,
                   marks, tracker>>

\* line 148: eachNode returns
ScanEachDone ==
    /\ pc = "each"
    /\ pos = Len(nodes)
    /\ pc' = "drain"
    /\ UNCHANGED <<docs, _cachedValues, call, ret, tokenized, errors,
                   doc, nodes, pos, tagStack, tags, tagID, marks, tracker>>

\* lines 151-160: one turn of the loop over the unclosed tags
ScanDrain ==
    /\ pc = "drain"
    /\ Len(tagStack) > 0
    /\ LET s == PopUnclosed([tagStack |-> tagStack, tags |-> tags,
                             tagID |-> tagID, errors |-> errors])
       IN  /\ tagStack' = s.tagStack
           /\ tags' = s.tags
           /\ tagID' = s.tagID
    /\ UNCHANGED <<docs, _cachedValues, call, ret, tokenized, errors,
                   pc, doc, nodes, pos, marks, tracker>>

\* lines 162-179: sort, cache, return
ScanReturn ==
    /\ pc = "drain"
    /\ Len(tagStack) = 0
    /\ \E sorted \in SortOutcomes(tags) :
        /\ tags' = sorted
        /\ _cachedValues' = CacheStore(doc, sorted)
        /\ ret' = Array(sorted)
    /\ pc' = "idle"
    /\ UNCHANGED <<docs, call, tokenized, errors, doc, nodes, pos, tagStack, tagID,
                   marks, tracker>>

\* generateInstrumentedHTML on the scanned document
GenerateScanned ==
    /\ CacheHit(FirstKey)
    /\ GenerateInstrumentedHTML(FirstKey)

NextScan ==
    \/ ScanBegin(FirstKey)
    \/ ScanEachNode
    \/ ScanEachDone
    \/ ScanDrain
    \/ ScanReturn
    \/ GenerateScanned

SpecScan == InitScan /\ [][NextScan]_vars

(***************************************************************************)
(* The editor side: _markText hands the cached spans to MarkedTextTracker, *)
(* _getTagIDAtDocumentPos asks it for the ranges at a position.  The       *)
(* tracker keeps, per editor, the ranges last marked under "htmlTagID",    *)
(* and answers with the ones that contain the position, in an order of its *)
(* own.                                                                    *)
(***************************************************************************)
htmlTagID == "htmlTagID"

\* MarkedTextTracker.markText(editor, ranges, type)
markText(marked, editor, ranges) ==
    [k \in DOMAIN marked \cup {editor} |-> IF k = editor THEN ranges ELSE marked[k]]

\* the sequences that hold each range of left once
RECURSIVE OrdersOf(_, _)
OrdersOf(ranges, left) ==
    IF left = {} THEN {<<>>}
    ELSE UNION {{<<ranges[i]>> \o rest : rest \in OrdersOf(ranges, left \ {i})}
                    : i \in left}

\* MarkedTextTracker.getRangesAtDocumentPos(editor, pos, type): the answers
\* the tracker may give
getRangesAtDocumentPos(marked, editor, at) ==
    IF editor \in DOMAIN marked
    THEN OrdersOf(marked[editor],
                  {i \in 1..Len(marked[editor]) :
                      marked[editor][i].start <= at /\ at <= marked[editor][i].end})
    ELSE {<<>>}

\* lines 221-222: cache && cache.tags
CachedTags(k) ==
    IF k \in DOMAIN _cachedValues THEN Array(_cachedValues[k].tags) ELSE Undefined

\* a test that takes an empty array for no tags (!tags.length)
NoTagsOrEmpty(cached) == cached.kind = "undefined" \/ cached.tags = <<>>

\* line 224: !tags, and an array is never falsy
NoTags(cached) == cached.kind = "undefined"

\* lines 220-230
_markText(k) ==
    /\ pc = "idle"
    /\ IF NoTags(CachedTags(k))
       THEN /\ errors' = 1
            /\ tracker' = NoTrackerCall
            /\ marks' = marks
       ELSE /\ errors' = 0
            /\ tracker' = [fn |-> "markText", editor |-> k, type |-> htmlTagID,
                           ranges |-> CachedTags(k).tags, pos |-> 0]
            /\ marks' = markText(marks, k, CachedTags(k).tags)
    /\ ret' = Undefined
    /\ tokenized' = FALSE
    /\ call' = [op |-> "_markText", key |-> k, cached |-> CachedStamp(k)]
    /\ UNCHANGED <<docs, _cachedValues, scanVars>>

\* a resolver that returns the data of the last range
TagIDOfLast(result) == IF Len(result) > 0 THEN result[Len(result)].data ELSE -1

\* lines 246-249
TagIDOf(result) == IF Len(result) > 0 THEN result[1].data ELSE -1

\* lines 243-250
_getTagIDAtDocumentPos(k, at) ==
    /\ pc = "idle"
    /\ \E result \in getRangesAtDocumentPos(marks, k, at) :
        /\ tracker' = [fn |-> "getRangesAtDocumentPos", editor |-> k, type |-> htmlTagID,
                       ranges |-> result, pos |-> at]
        /\ ret' = Number(TagIDOf(result))
    /\ errors' = 0
    /\ tokenized' = FALSE
    /\ call' = [op |-> "_getTagIDAtDocumentPos", key |-> k, cached |-> CachedStamp(k)]
    /\ UNCHANGED <<docs, _cachedValues, marks, scanVars>>

\* the texts the document of the editor takes
EditorDocs == {TextOnlyDoc, NestedDoc}

InitEditor ==
    /\ \E text \in EditorDocs :
        docs = [k \in Keys |-> [text |-> IF k = FirstKey THEN text ELSE <<>>,
                                diskTimestamp |-> 1]]
    /\ InitCommon

NextEditor ==
    \/ \E k \in Keys : ScanDocument(k)
    \/ \E k \in Keys : GenerateInstrumentedHTML(k)
    \/ \E text \in EditorDocs : SetText(FirstKey, text)
    \/ \E stamp \in 1..MaxStamp : SetTimestamp(FirstKey, stamp)
    \/ \E k \in Keys : _markText(k)
    \/ \E k \in Keys : \E at \in 0..Len(docs[k].text) : _getTagIDAtDocumentPos(k, at)

SpecEditor == InitEditor /\ [][NextEditor]_vars


(***************************************************************************)
(* Properties.                                                             *)
(***************************************************************************)
\* a step of Spec that is the call op(k) of the exported interface
IsCall(op, k) ==
    /\ docs' = docs
    /\ call'.op = op
    /\ call'.key = k

\* C1: scanDocument on a document whose cached timestamp equals its current
\* timestamp returns the cached tag list, does not invoke the tokenizer and
\* leaves the cache as it is.
C1_CacheHit ==
    [][\A k \in Keys :
        (/\ IsCall("scanDocument", k)
         /\ k \in DOMAIN _cachedValues
         /\ _cachedValues[k].timestamp = docs[k].diskTimestamp)
        => (/\ ret' = Array(_cachedValues[k].tags)
            /\ tokenized' = FALSE
            /\ _cachedValues' = _cachedValues)]_vars

C1_Witness ==
    \E k \in Keys :
        /\ call = [op |-> "scanDocument", key |-> k, cached |-> docs[k].diskTimestamp]
        /\ tokenized = FALSE
        /\ ret = Array(_cachedValues[k].tags)
        /\ Len(ret.tags) > 0

\* C2: scanDocument on a document with no cached value, or with a cached
\* timestamp that differs from its current timestamp (larger or smaller),
\* invokes the tokenizer, returns the tags of the current text and replaces the
\* cached value of that path by the current timestamp and those tags.
C2_CacheMiss ==
    [][\A k \in Keys :
        (/\ IsCall("scanDocument", k)
         /\ \/ k \notin DOMAIN _cachedValues
            \/ _cachedValues[k].timestamp # docs[k].diskTimestamp)
        => (/\ tokenized' = TRUE
            /\ ret'.kind = "array"
            /\ ret'.tags \in SortOutcomes(ScanText(docs[k].text).tags)
            /\ DOMAIN _cachedValues' = (DOMAIN _cachedValues) \cup {k}
            /\ _cachedValues'[k] =
                   [timestamp |-> docs[k].diskTimestamp, tags |-> ret'.tags]
            /\ \A j \in DOMAIN _cachedValues :
                   j # k => _cachedValues'[j] = _cachedValues[j])]_vars

\* a document scanned at a timestamp was scanned again at a smaller one
C2_Witness ==
    \E k \in Keys :
        /\ call.op = "scanDocument"
        /\ call.key = k
        /\ call.cached > docs[k].diskTimestamp
        /\ tokenized = TRUE
        /\ _cachedValues[k] = [timestamp |-> docs[k].diskTimestamp, tags |-> ret.tags]
        /\ Len(ret.tags) > 0


\* the scan of SpecScan has returned
ScanReturned == pc = "idle" /\ FirstKey \in DOMAIN _cachedValues

\* the payload is one the callback does not drop: an element with a name that
\* is not the closing tag of an empty tag (lines 95, 98)
Handled(payload) ==
    /\ payload.nodeType = 1
    /\ payload.nodeName # <<>>
    /\ ~(payload.closing /\ _isEmptyTag(payload))

\* C3: the identities of the spans of one scan are pairwise distinct positive
\* integers, and with n spans they are exactly 1..n.
C3_Identities ==
    /\ \A i, j \in 1..Len(tags) : i # j => tags[i].data # tags[j].data
    /\ {tags[i].data : i \in 1..Len(tags)} = 1..Len(tags)
    /\ ret.kind = "array" =>
        /\ \A i, j \in 1..Len(ret.tags) : i # j => ret.tags[i].data # ret.tags[j].data
        /\ {ret.tags[i].data : i \in 1..Len(ret.tags)} = 1..Len(ret.tags)

\* a returned list of three spans, one matched, one empty, one unclosed, whose
\* identities are not in the order of the list
C3_Witness ==
    /\ ret.kind = "array"
    /\ Len(ret.tags) = 3
    /\ ret.tags[1].data > ret.tags[2].data
    /\ \E i \in 1..Len(nodes) : nodes[i].closing /\ Handled(nodes[i])
    /\ \E i \in 1..Len(nodes) : ~nodes[i].closing /\ _isEmptyTag(nodes[i])
                                    /\ Handled(nodes[i])

\* the offset of the first payload the callback handles after the one at offset
\* from, -1 when there is none
NextHandledOffset(from) ==
    LET later == {i \in 1..Len(nodes) :
                     Handled(nodes[i]) /\ nodes[i].sourceOffset > from}
    IN  IF later = {} THEN -1
        ELSE nodes[CHOOSE i \in later : \A j \in later : i <= j].sourceOffset

\* C4 as stated: the unclosed tags are drained innermost first, and each one
\* with no later tag to bound it ends at the end of the document; for
\* <div><p>text there are two spans, P with the smaller identity, both ending
\* at the length of the document.
C4_UnclosedEndOfDocument ==
    [][(pc = "drain" /\ pc' = "idle") =>
        /\ \A i \in 1..Len(tags') :
              (/\ \E j \in 1..Len(nodes) :
                      /\ nodes[j].sourceOffset = tags'[i].start
                      /\ ~_isEmptyTag(nodes[j])
               /\ NextHandledOffset(tags'[i].start) = -1)
              => tags'[i].end = Len(docs[doc].text)
        /\ docs[doc].text = UnclosedDoc =>
              /\ Len(tags') = 2
              /\ tags'[2].data < tags'[1].data
              /\ tags'[1].end = Len(UnclosedDoc)
              /\ tags'[2].end = Len(UnclosedDoc)]_vars

\* C4 as amended: the unclosed tags are drained innermost first (the one opened
\* last gets the next identity); a drained tag that no handled tag follows ends
\* at the end of its own opening tag, one that a handled tag follows ends at
\* the start of the first such tag, or at the end of the document when it is
\* HTML or BODY; for <div><p>text there are two spans, P with the smaller
\* identity, P ending at 8 (the end of <p>) and DIV at 5 (the start of <p>).
C4_Unclosed ==
    [][/\ (pc = "drain" /\ pc' = "drain" /\ tags' # tags) =>
            LET new == tags'[Len(tags')]
                bound == NextHandledOffset(new.start)
            IN  /\ Len(tags') = Len(tags) + 1
                /\ new.data = tagID
                /\ \A i \in 1..Len(tagStack) : tagStack[i].sourceOffset <= new.start
                /\ \E i \in 1..Len(tagStack) :
                      /\ tagStack[i].sourceOffset = new.start
                      /\ new.name = tagStack[i].nodeName
                      /\ new.end =
                            IF bound = -1
                            THEN new.start + tagStack[i].sourceLength
                            ELSE IF new.name = HTML \/ new.name = BODY
                            THEN Len(docs[doc].text)
                            ELSE bound
                /\ \A i \in 1..Len(tagStack') : tagStack'[i].sourceOffset < new.start
       /\ (pc = "drain" /\ pc' = "idle" /\ docs[doc].text = UnclosedDoc) =>
            ret' = Array(<< [name |-> <<"D","I","V">>, data |-> 2, start |-> 0, end |-> 5],
                            [name |-> <<"P">>, data |-> 1, start |-> 5, end |-> 8] >>)
      ]_vars

C4_Witness ==
    /\ docs[FirstKey].text = UnclosedDoc
    /\ Len(UnclosedDoc) = 12
    /\ ret = Array(<< [name |-> <<"D","I","V">>, data |-> 2, start |-> 0, end |-> 5],
                      [name |-> <<"P">>, data |-> 1, start |-> 5, end |-> 8] >>)

\* C5: scanDocument returns the array of tag info, or null when no tags were
\* found in the document.
C5_NullWhenNoTags ==
    (ScanReturned /\ call.op = "scanDocument") =>
        IF \A i \in 1..Len(nodes) : nodes[i].nodeType # 1
        THEN ret = Null
        ELSE ret.kind = "array"


\* the total length of the attributes of the spans before the i-th
RECURSIVE InsertedBefore(_, _)
InsertedBefore(spans, i) ==
    IF i <= 1 THEN 0
    ELSE InsertedBefore(spans, i - 1) + Len(AttrText(spans[i - 1]))

\* how many times pat occurs in s
Occurrences(s, pat) ==
    Cardinality({i \in 1..(Len(s) - Len(pat) + 1) : SubSeq(s, i, i + Len(pat) - 1) = pat})

\* C6: generateInstrumentedHTML on a scanned text inserts exactly one
\* attribute string data-brackets-id='<identity>' per span, each right after
\* the name of the span's own opening tag: at start + 1 + len(name), shifted by
\* the length of the attributes of the spans earlier in the list.
C6_Placement ==
    call.op = "generateInstrumentedHTML" =>
        LET text == docs[call.key].text
            spans == _cachedValues[call.key].tags
            gen == ret.str
        IN  /\ ret.kind = "string"
            /\ Len(gen) = Len(text) + InsertedBefore(spans, Len(spans) + 1)
            /\ Occurrences(gen, AttrPrefix) = Len(spans)
            /\ \A i \in 1..Len(spans) :
                  LET attr == AttrText(spans[i])
                      opening == 1 + Len(spans[i].name)
                      at == spans[i].start + opening + InsertedBefore(spans, i)
                  IN  /\ Substr(gen, at, Len(attr)) = attr
                      /\ Substr(gen, at - opening, opening)
                             = Substr(text, spans[i].start, opening)
                      /\ ToUpperCase(Substr(gen, at - opening, opening))
                             = <<"<">> \o spans[i].name

\* a text of three spans whose identities are not in the order of the list
C6_Witness ==
    /\ call.op = "generateInstrumentedHTML"
    /\ Len(_cachedValues[call.key].tags) = 3
    /\ _cachedValues[call.key].tags[1].data = 3
    /\ Len(ret.str) = Len(docs[call.key].text) + 3 * (Len(AttrPrefix) + 2)

\* the length of the run of digits of s from the sequence index i
RECURSIVE DigitRun(_, _)
DigitRun(s, i) ==
    IF i > Len(s) \/ ~(\E d \in 1..10 : Digits[d] = s[i]) THEN 0
    ELSE 1 + DigitRun(s, i + 1)

\* the length of the attribute data-brackets-id='<n>' that starts at the
\* sequence index i of s, 0 when none starts there
AttributeAt(s, i) ==
    LET n == Len(AttrPrefix)
        d == DigitRun(s, i + n)
    IN  IF /\ i + n - 1 <= Len(s)
           /\ SubSeq(s, i, i + n - 1) = AttrPrefix
           /\ d > 0
           /\ i + n + d <= Len(s)
           /\ s[i + n + d] = "'"
        THEN n + d + 1
        ELSE 0

\* s without its data-brackets-id attributes
RECURSIVE StripFrom(_, _)
StripFrom(s, i) ==
    IF i > Len(s) THEN <<>>
    ELSE IF AttributeAt(s, i) > 0 THEN StripFrom(s, i + AttributeAt(s, i))
    ELSE <<s[i]>> \o StripFrom(s, i + 1)

StripAttributes(s) == StripFrom(s, 1)

\* C7: removing every data-brackets-id attribute from the text that
\* generateInstrumentedHTML returns for a scanned text gives the text back.
C7_RoundTrip ==
    call.op = "generateInstrumentedHTML" =>
        /\ ret.kind = "string"
        /\ StripAttributes(ret.str) = docs[call.key].text

\* an instrumented text of two attributes, inside a tag and at the end of one
C7_Witness ==
    /\ call.op = "generateInstrumentedHTML"
    /\ Len(_cachedValues[call.key].tags) >= 2
    /\ ret.str # docs[call.key].text
    /\ StripAttributes(ret.str) = docs[call.key].text
    /\ \E i \in 1..Len(nodes) : nodes[i].closed


\* the name is one of the void elements of the classifier's list, as a whole name
VoidName(nodeName) == ToLowerCase(nodeName) \in EmptyTagPattern

\* the i-th payload opens (closes) a tag that is neither void nor closed
Opens(i) ==
    /\ nodes[i].nodeType = 1
    /\ nodes[i].nodeName # <<>>
    /\ ~nodes[i].closing
    /\ ~nodes[i].closed
    /\ ~VoidName(nodes[i].nodeName)

Closes(i) ==
    /\ nodes[i].nodeType = 1
    /\ nodes[i].nodeName # <<>>
    /\ nodes[i].closing
    /\ ~nodes[i].closed
    /\ ~VoidName(nodes[i].nodeName)

\* the payloads i..j hold as many opening as closing tags of the name, and no
\* closing tag of it before its opening tag
Balanced(nodeName, i, j) ==
    LET opened(m) == Cardinality({x \in i..m : Opens(x) /\ nodes[x].nodeName = nodeName})
        closed(m) == Cardinality({x \in i..m : Closes(x) /\ nodes[x].nodeName = nodeName})
    IN  /\ \A m \in i..j : opened(m) >= closed(m)
        /\ opened(j) = closed(j)

\* the c-th payload is the closing tag that matches the opening tag o
MatchingClose(o, c) ==
    /\ o < c
    /\ Opens(o)
    /\ Closes(c)
    /\ nodes[o].nodeName = nodes[c].nodeName
    /\ Balanced(nodes[o].nodeName, o + 1, c - 1)

\* C8: for two tags A and B that are not void, B opening after A and B's
\* matching close coming before A's matching close, the scan yields a span for
\* each, B's identity is smaller than A's, A.start < B.start and B.end <= A.end.
C8_ClosureOrder ==
    ScanReturned =>
        \A a, b, cb, ca \in 1..Len(nodes) :
            (a < b /\ b < cb /\ cb < ca /\ MatchingClose(a, ca) /\ MatchingClose(b, cb))
            => \E i, j \in 1..Len(tags) :
                  /\ tags[i].start = nodes[a].sourceOffset
                  /\ tags[j].start = nodes[b].sourceOffset
                  /\ tags[j].data < tags[i].data
                  /\ tags[i].start < tags[j].start
                  /\ tags[j].end <= tags[i].end

\* C9: a closing tag whose name no entry of the open stack carries emits no
\* span, takes no identity, removes no stack entry and does not end the scan;
\* for <div></span></div> the result is one span, DIV, from 0 to the length of
\* the document.
C9_UnmatchedClose ==
    [][/\ (pc = "each" /\ pos' = pos + 1) =>
            LET payload == nodes[pos + 1]
            IN  (/\ payload.nodeType = 1
                 /\ payload.nodeName # <<>>
                 /\ payload.closing
                 /\ \A i \in 1..Len(tagStack) : tagStack[i].nodeName # payload.nodeName)
                => /\ tags' = tags
                   /\ tagID' = tagID
                   /\ Len(tagStack') = Len(tagStack)
                   /\ \A i \in 1..Len(tagStack) :
                          /\ tagStack'[i].nodeName = tagStack[i].nodeName
                          /\ tagStack'[i].sourceOffset = tagStack[i].sourceOffset
                          /\ tagStack'[i].sourceLength = tagStack[i].sourceLength
                   /\ pc' = "each"
       /\ (pc = "drain" /\ pc' = "idle" /\ docs[doc].text = UnmatchedCloseDoc) =>
            ret' = Array(<< [name |-> <<"D","I","V">>, data |-> 1, start |-> 0,
                             end |-> Len(UnmatchedCloseDoc)] >>)
      ]_vars

C9_Witness ==
    /\ docs[FirstKey].text = UnmatchedCloseDoc
    /\ errors = 1
    /\ ret = Array(<< [name |-> <<"D","I","V">>, data |-> 1, start |-> 0, end |-> 18] >>)

\* the tags of the payloads without the i-th
TagsWithout(i) ==
    SortOutcomes(PopAllUnclosed(
        EachCallback(ScanStart, Splice(nodes, i), 1, Len(docs[doc].text))).tags)

\* C10: the closing tag of a void or closed name changes nothing wherever it
\* comes in the stream: the open stack with the unclosed lengths of its
\* entries, the identity counter and the spans stay as they are, and the final
\* span list is that of the stream without it.
C10_VoidClosingIgnored ==
    [][/\ (pc = "each" /\ pos' = pos + 1) =>
            LET payload == nodes[pos + 1]
            IN  (payload.closing /\ (VoidName(payload.nodeName) \/ payload.closed))
                => /\ tagStack' = tagStack
                   /\ tags' = tags
                   /\ tagID' = tagID
                   /\ errors' = errors
       /\ (pc = "drain" /\ pc' = "idle") =>
            \A i \in 1..Len(nodes) :
                (nodes[i].closing /\ (VoidName(nodes[i].nodeName) \/ nodes[i].closed))
                => tags' \in TagsWithout(i)
      ]_vars

\* </img> was handled with an open tag on the stack whose unclosed length is
\* not set, and with a span emitted before it
C10_Witness ==
    /\ pc = "each"
    /\ pos > 0
    /\ nodes[pos].closing
    /\ VoidName(nodes[pos].nodeName)
    /\ Len(tagStack) > 0
    /\ tagStack[Len(tagStack)].unclosedLength = 0
    /\ Len(tags) > 0

\* the i-th payload is an element the source calls void by its whole name, or
\* one closed in its own tag, and it is not a closing tag
VoidOccurrence(i) ==
    /\ nodes[i].nodeType = 1
    /\ nodes[i].nodeName # <<>>
    /\ ~nodes[i].closing
    /\ (VoidName(nodes[i].nodeName) \/ nodes[i].closed)

\* every opening tag has its matching close and every closing tag its opening tag
WellFormed ==
    /\ \A o \in 1..Len(nodes) : Opens(o) => \E c \in 1..Len(nodes) : MatchingClose(o, c)
    /\ \A c \in 1..Len(nodes) : Closes(c) => \E o \in 1..Len(nodes) : MatchingClose(o, c)

\* C11: every opening tag that is not void and every void or self-closed
\* element yields exactly one span, so the number of spans returned is the
\* number of the former plus the number of the latter; for a well-formed
\* document it is the number of open/close pairs plus the void occurrences.
C11_SpanCount ==
    ScanReturned =>
        /\ \A i \in 1..Len(nodes) :
              (Opens(i) \/ VoidOccurrence(i))
              => Cardinality({j \in 1..Len(tags) :
                                 tags[j].start = nodes[i].sourceOffset}) = 1
        /\ Len(tags) = Cardinality({i \in 1..Len(nodes) : Opens(i)})
                        + Cardinality({i \in 1..Len(nodes) : VoidOccurrence(i)})
        /\ WellFormed =>
              Len(tags) = Cardinality({p \in (1..Len(nodes)) \X (1..Len(nodes)) :
                                          MatchingClose(p[1], p[2])})
                          + Cardinality({i \in 1..Len(nodes) : VoidOccurrence(i)})

\* <div><img><p></p> has returned three spans: DIV unclosed, IMG void, P matched
C11_Witness ==
    /\ ScanReturned
    /\ docs[FirstKey].text = MixedDoc
    /\ Cardinality({i \in 1..Len(nodes) : Opens(i)}) = 2
    /\ Cardinality({i \in 1..Len(nodes) : VoidOccurrence(i)}) = 1
    /\ Len(tags) = 3

\* C12: _markText on a document with no cached snapshot reports an error,
\* returns normally, makes no call on the range tracker and changes no state;
\* once scanDocument or generateInstrumentedHTML has run for the document its
\* snapshot stays, and every later _markText hands the tracker exactly the
\* cached span list under "htmlTagID".
C12_MarkText ==
    [][\A k \in Keys :
        /\ IsCall("_markText", k) =>
            IF k \in DOMAIN _cachedValues
            THEN /\ errors' = 0
                 /\ tracker' = [fn |-> "markText", editor |-> k, type |-> "htmlTagID",
                                ranges |-> _cachedValues[k].tags, pos |-> 0]
                 /\ marks'[k] = _cachedValues[k].tags
                 /\ \A j \in DOMAIN marks \ {k} : marks'[j] = marks[j]
                 /\ UNCHANGED <<docs, _cachedValues>>
            ELSE /\ errors' = 1
                 /\ ret' = Undefined
                 /\ tracker' = NoTrackerCall
                 /\ UNCHANGED <<docs, _cachedValues, marks>>
        /\ (IsCall("scanDocument", k) \/ IsCall("generateInstrumentedHTML", k))
            => k \in DOMAIN _cachedValues'
        /\ k \in DOMAIN _cachedValues => k \in DOMAIN _cachedValues'
      ]_vars

\* _markText has handed the tracker the empty span list of a scanned document
\* without tags, after it had reported the missing snapshot of the other one
C12_Witness ==
    /\ call.op = "_markText"
    /\ call.key \in DOMAIN _cachedValues
    /\ _cachedValues[call.key].tags = <<>>
    /\ tracker.fn = "markText"
    /\ marks[call.key] = <<>>
    /\ \E k \in Keys : k \notin DOMAIN _cachedValues

\* C13: _getTagIDAtDocumentPos returns -1 exactly when the tracker reports no
\* "htmlTagID" range containing the position, and otherwise the data of the
\* first range the tracker returns; the result is -1 or an integer >= 1.
C13_TagIDAtPos ==
    call.op = "_getTagIDAtDocumentPos" =>
        /\ tracker.fn = "getRangesAtDocumentPos"
        /\ tracker.editor = call.key
        /\ tracker.type = "htmlTagID"
        /\ tracker.ranges \in getRangesAtDocumentPos(marks, call.key, tracker.pos)
        /\ ret.kind = "number"
        /\ ret.num = -1 <=> tracker.ranges = <<>>
        /\ tracker.ranges # <<>> => ret.num = tracker.ranges[1].data
        /\ ret.num = -1 \/ ret.num >= 1

\* the tracker has answered with two ranges, and the call has returned the
\* data of the first, which is not that of the second
C13_Witness ==
    /\ call.op = "_getTagIDAtDocumentPos"
    /\ Len(tracker.ranges) = 2
    /\ tracker.ranges[1].data # tracker.ranges[2].data
    /\ ret.num = tracker.ranges[1].data

\* C14: the classifier returns true exactly when the payload has no name, or
\* is closed in its own tag, or its name is, as a whole name and whatever the
\* letter case, one of the sixteen of the list; every other name with closed
\* unset (TEXTAREA, COLGROUP, IFRAME, ABBR) is classified false, so that its
\* opening tag is pushed on the open stack.
C14_WholeName ==
    /\ \A i \in 1..pos :
          _isEmptyTag(nodes[i])
              <=> (nodes[i].nodeName = <<>> \/ nodes[i].closed
                       \/ VoidName(nodes[i].nodeName))
    /\ (pc = "each" /\ pos > 0 /\ Opens(pos)) =>
          /\ Len(tagStack) > 0
          /\ tagStack[Len(tagStack)].sourceOffset = nodes[pos].sourceOffset

\* the stack entries are the same tag: unclosedLength may have been set since
SameEntry(a, b) ==
    /\ a.nodeName = b.nodeName
    /\ a.sourceOffset = b.sourceOffset
    /\ a.sourceLength = b.sourceLength

\* C15: the closing tag of a name that is not void is matched to the entry
\* opened last among those of its name on the open stack; that entry alone is
\* removed, the entries below and above it keep their order, so that the
\* stack is always ascending by start offset; the span emitted starts where the
\* matched entry starts and ends at the closing tag's offset plus its length.
C15_InnermostFirst ==
    [][/\ \A a, b \in 1..Len(tagStack) :
              a < b => tagStack[a].sourceOffset < tagStack[b].sourceOffset
       /\ (pc = "each" /\ pos' = pos + 1 /\ Closes(pos + 1)) =>
            LET payload == nodes[pos + 1]
                same == {j \in 1..Len(tagStack) : tagStack[j].nodeName = payload.nodeName}
            IN  same # {} =>
                    LET i == CHOOSE j \in same : \A m \in same : m <= j
                    IN  /\ Len(tagStack') = Len(tagStack) - 1
                        /\ \A j \in 1..(i - 1) : SameEntry(tagStack'[j], tagStack[j])
                        /\ \A j \in (i + 1)..Len(tagStack) :
                               SameEntry(tagStack'[j - 1], tagStack[j])
                        /\ tags' = Append(tags,
                               [name |-> payload.nodeName,
                                data |-> tagID,
                                start |-> tagStack[i].sourceOffset,
                                end |-> payload.sourceOffset + payload.sourceLength])
      ]_vars

\* a closing tag has been matched to an entry below the top of the stack, and
\* the entry above it is still on the stack
C15_Witness ==
    /\ pc = "each"
    /\ pos > 0
    /\ Closes(pos)
    /\ Len(tags) > 0
    /\ tags[Len(tags)].end = nodes[pos].sourceOffset + nodes[pos].sourceLength
    /\ Len(tagStack) > 0
    /\ tagStack[Len(tagStack)].sourceOffset > tags[Len(tags)].start

\* C16: every HTML or BODY opening tag that no closing tag matches yields a
\* span that ends at the end of the document, wherever the tag comes in the
\* stream, also when it is the last element of the stream.
C16_RootToEndOfDocument ==
    ScanReturned =>
        \A i \in 1..Len(nodes) :
            (/\ Opens(i)
             /\ nodes[i].nodeName \in {HTML, BODY}
             /\ ~\E c \in 1..Len(nodes) : MatchingClose(i, c))
            => \E j \in 1..Len(tags) :
                  /\ tags[j].start = nodes[i].sourceOffset
                  /\ tags[j].end = Len(docs[FirstKey].text)

\* C17: the list returned holds the spans discovered, ascending by start, spans
\* of equal start in the order of their discovery; with the offsets of the
\* tokenizer no two spans share a start, so the order is strictly ascending.
C17_SortedByStart ==
    [][(pc = "drain" /\ pc' = "idle") =>
        /\ ret'.kind = "array"
        /\ Len(ret'.tags) = Len(tags)
        /\ \A x \in 1..Len(tags) : \E y \in 1..Len(ret'.tags) : ret'.tags[y] = tags[x]
        /\ \A i, j \in 1..Len(ret'.tags) :
              i < j =>
                  /\ ret'.tags[i].start <= ret'.tags[j].start
                  /\ ret'.tags[i].start = ret'.tags[j].start
                        => ret'.tags[i].data < ret'.tags[j].data
                  /\ ret'.tags[i].start < ret'.tags[j].start
        /\ _cachedValues'[doc].tags = ret'.tags
      ]_vars

\* the scan has returned two spans or more, and not in the order of their
\* discovery: a span discovered later starts before one discovered earlier
C17_Witness ==
    /\ ScanReturned
    /\ call.op = "scanDocument"
    /\ Len(ret.tags) >= 2
    /\ \E i \in 1..(Len(ret.tags) - 1) :
          /\ ret.tags[i].data > ret.tags[i + 1].data
          /\ ret.tags[i].start < ret.tags[i + 1].start

\* C18: every span has start < end, whichever way it was produced: by a
\* matched closing tag, as an empty tag, or by the loop over the unclosed tags.
C18_StartBeforeEnd ==
    /\ \A i \in 1..Len(tags) : tags[i].start < tags[i].end
    /\ \A i \in 1..Len(ret.tags) : ret.tags[i].start < ret.tags[i].end
    /\ \A k \in DOMAIN _cachedValues :
          \A i \in 1..Len(_cachedValues[k].tags) :
              _cachedValues[k].tags[i].start < _cachedValues[k].tags[i].end

\* <div><img><p></p> has returned its spans: DIV unclosed, cut at <img>, IMG
\* empty, P matched
C18_Witness ==
    /\ docs[FirstKey].text = MixedDoc
    /\ ret = Array(<< [name |-> <<"D","I","V">>, data |-> 3, start |-> 0, end |-> 5],
                      [name |-> <<"I","M","G">>, data |-> 1, start |-> 5, end |-> 10],
                      [name |-> <<"P">>, data |-> 2, start |-> 10, end |-> 17] >>)

\* C19: after any sequence of text changes, timestamp changes and calls on a
\* document, the spans scanDocument returns, and generateInstrumentedHTML
\* applies, are those of a fresh scan of the text the document has at the
\* time of the call, also when the text has changed and the timestamp not.
C19_CacheCoherence ==
    [][\A k \in Keys :
        /\ IsCall("scanDocument", k) =>
              ret'.tags \in SortOutcomes(ScanText(docs[k].text).tags)
        /\ IsCall("generateInstrumentedHTML", k) =>
              \E fresh \in SortOutcomes(ScanText(docs[k].text).tags) :
                  ret'.str = InsertAttributes(docs[k].text, fresh, 1, 0)
      ]_vars

\* C20: generateInstrumentedHTML leaves the snapshot as the scan it triggers
\* leaves it: afterwards the cached list is, element by element, the list
\* scanDocument returns for the document at the same timestamp, the snapshots
\* of the other documents and the text are as before, and a call made right
\* after it returns the same string.
C20_GenerateFrame ==
    [][\A k \in Keys :
        IsCall("generateInstrumentedHTML", k) =>
            /\ docs' = docs
            /\ k \in DOMAIN _cachedValues'
            /\ _cachedValues'[k].timestamp = docs[k].diskTimestamp
            /\ CacheHit(k) => _cachedValues' = _cachedValues
            /\ ~CacheHit(k) =>
                  _cachedValues'[k].tags \in SortOutcomes(ScanText(docs[k].text).tags)
            /\ \A j \in DOMAIN _cachedValues \ {k} : _cachedValues'[j] = _cachedValues[j]
            /\ ScanResults(k)' = {_cachedValues'[k].tags}
            /\ \A again \in ScanResults(k)' :
                  ret'.str = InsertAttributes(docs'[k].text, again, 1, 0)
      ]_vars

\* generateInstrumentedHTML has been called on a document whose snapshot it
\* had to make, and has returned the text with the attributes of two spans
\* while the snapshot holds the two spans
C20_Witness ==
    /\ call.op = "generateInstrumentedHTML"
    /\ call.cached # docs[call.key].diskTimestamp
    /\ CacheHit(call.key)
    /\ Len(_cachedValues[call.key].tags) = 2
    /\ ret.str = InsertAttributes(docs[call.key].text, _cachedValues[call.key].tags, 1, 0)
    /\ Len(ret.str) > Len(docs[call.key].text)

=============================================================================
